---- MODULE Spec2Model ----
(***************************************************************************)
(* A model of scr/pic/draw.py: draw_circles_on_image_v2 decodes a base64   *)
(* image, converts it to RGBA, draws one ellipse per coordinate and        *)
(* returns the image as a base64 PNG.  Every exception is printed and      *)
(* re-raised.                                                              *)
(*                                                                         *)
(* The library calls are modelled by what they do:                         *)
(*   - base64.b64decode (validate=False) and base64.b64encode work on      *)
(*     sequences of symbols: 0..63 are the alphabet's sextets, PAD is '=', *)
(*     JUNK an ASCII character outside the alphabet, NONASCII a character  *)
(*     outside ASCII;                                                      *)
(*   - the image codec is a lossless container: a magic byte, a mode byte, *)
(*     width, height, then the channel bytes row by row.  Image.open reads *)
(*     the header only; the pixel data is read by the first load();        *)
(*   - ImageDraw's ellipse is the closed disc inscribed in the bounding    *)
(*     box, clipped to the image; pixels are overwritten, not blended.     *)
(***************************************************************************)
EXTENDS Integers, Sequences, FiniteSets, TLC

\* ------------------------------------------------------------- bounds
ImgSize == 4
MaxCoords == 2
MaxRadius == 2
MaxWidth == 1

W == ImgSize
H == ImgSize - 1

\* ------------------------------------------------- program constants
DefaultRadius == 15
DefaultWidth == 1

\* ------------------------------------------------------------ base64
PAD == 64
JUNK == 65
NONASCII == 66

IsAscii(s) == \A i \in 1..Len(s) : s[i] # NONASCII

IsSextet(ch) == ch < PAD

\* The sextets among the first n symbols of s.
Sextets(s, n) == SelectSeq(SubSeq(s, 1, n), IsSextet)

\* The bytes of a run of sextets: three for each full quad, then one for
\* two sextets left over and two for three.
QuadBytes(d) ==
    LET n == Len(d)
        nbytes == 3 * (n \div 4) +
                  (CASE n % 4 = 2 -> 1 [] n % 4 = 3 -> 2 [] OTHER -> 0) IN
    [j \in 1..nbytes |->
        LET q == 4 * ((j - 1) \div 3) IN
        CASE (j - 1) % 3 = 0 -> d[q + 1] * 4 + d[q + 2] \div 16
          [] (j - 1) % 3 = 1 -> (d[q + 2] % 16) * 16 + d[q + 3] \div 4
          [] OTHER           -> (d[q + 3] % 4) * 64 + d[q + 4]]

\* binascii.a2b_base64 in its non-strict mode.  Characters outside the
\* alphabet are skipped.  A pad met with quad_pos >= 2 that brings
\* quad_pos + pads to 4 ends the parse there (pads counts the pads since
\* the last sextet): that is a pad after three sextets of a quad, or a
\* second pad after two.  Without such a pad the input must end on a full
\* quad.
a2b_base64(s) ==
    LET t == SelectSeq(s, LAMBDA ch : ch <= PAD)
        stops == {i \in 1..Len(t) :
                    /\ t[i] = PAD
                    /\ LET quad_pos == Len(Sextets(t, i - 1)) % 4 IN
                       \/ quad_pos = 3
                       \/ quad_pos = 2 /\ i > 1 /\ t[i - 1] = PAD}
        data == IF stops = {} THEN Sextets(t, Len(t))
                ELSE Sextets(t, CHOOSE i \in stops : \A k \in stops : i <= k)
        ok == stops # {} \/ Len(data) % 4 = 0 IN
    [ok |-> ok, bytes |-> IF ok THEN QuadBytes(data) ELSE <<>>]

\* base64.b64decode(s): a str must be ASCII (ValueError), then a2b_base64.
b64decode(s) ==
    IF ~IsAscii(s) THEN [ok |-> FALSE, kind |-> "ValueError", bytes |-> <<>>]
    ELSE LET r == a2b_base64(s) IN
         [ok |-> r.ok, kind |-> IF r.ok THEN "" ELSE "binascii.Error",
          bytes |-> r.bytes]

\* base64.b64encode(b).decode('utf-8'): four symbols for every three
\* bytes, the last group padded.
b64encode(b) ==
    LET n == Len(b)
        at(i) == IF i <= n THEN b[i] ELSE 0 IN
    [k \in 1..4 * ((n + 2) \div 3) |->
        LET i == 3 * ((k - 1) \div 4) + 1 IN
        CASE (k - 1) % 4 = 0 -> at(i) \div 4
          [] (k - 1) % 4 = 1 -> (at(i) % 4) * 16 + at(i + 1) \div 16
          [] (k - 1) % 4 = 2 -> IF i + 1 > n THEN PAD
                                ELSE (at(i + 1) % 16) * 4 + at(i + 2) \div 64
          [] OTHER           -> IF i + 2 > n THEN PAD ELSE at(i + 2) % 64]

\* ------------------------------------------------------------- images
Channels(mode) ==
    CASE mode = "L" -> 1 [] mode = "LA" -> 2 [] mode = "RGB" -> 3 [] OTHER -> 4

HasAlpha(mode) == mode \in {"LA", "RGBA"}

ModeCode(mode) ==
    CASE mode = "L" -> 0 [] mode = "LA" -> 4 [] mode = "RGB" -> 2 [] OTHER -> 6

CodeMode(code) ==
    CASE code = 0 -> "L" [] code = 4 -> "LA" [] code = 2 -> "RGB"
      [] code = 6 -> "RGBA" [] OTHER -> ""

PngMagic == 137

NullObj == [mode |-> "", size |-> <<0, 0>>, raw |-> <<>>, px |-> <<>>,
            loaded |-> FALSE]

\* image.save(buffer, format='PNG')
EncodePNG(img) ==
    LET n == Channels(img.mode) IN
    <<PngMagic, ModeCode(img.mode), img.size[1], img.size[2]>>
        \o [i \in 1..n * Len(img.px) |->
              img.px[((i - 1) \div n) + 1][((i - 1) % n) + 1]]

\* Image.open(io.BytesIO(data)): the header is read, the pixels are not.
ImageOpen(data) ==
    IF Len(data) >= 4 /\ data[1] = PngMagic /\ CodeMode(data[2]) # ""
    THEN [ok |-> TRUE, kind |-> "",
          img |-> [mode |-> CodeMode(data[2]), size |-> <<data[3], data[4]>>,
                   raw |-> SubSeq(data, 5, Len(data)), px |-> <<>>,
                   loaded |-> FALSE]]
    ELSE [ok |-> FALSE, kind |-> "UnidentifiedImageError", img |-> NullObj]

\* image.load(): the pixel data is decoded; a short file is an OSError.
ImageLoad(img) ==
    IF img.loaded THEN [ok |-> TRUE, kind |-> "", img |-> img]
    ELSE LET n == Channels(img.mode)
             cnt == img.size[1] * img.size[2] IN
         IF Len(img.raw) < n * cnt
         THEN [ok |-> FALSE, kind |-> "OSError", img |-> img]
         ELSE [ok |-> TRUE, kind |-> "",
               img |-> [img EXCEPT
                   !.px = [k \in 1..cnt |->
                             [j \in 1..n |-> img.raw[(k - 1) * n + j]]],
                   !.raw = <<>>, !.loaded = TRUE]]

PixelToRGBA(p, mode) ==
    CASE mode = "L"   -> <<p[1], p[1], p[1], 255>>
      [] mode = "LA"  -> <<p[1], p[1], p[1], p[2]>>
      [] mode = "RGB" -> <<p[1], p[2], p[3], 255>>
      [] OTHER        -> p

\* image.convert('RGBA') of a loaded image: a new image object.
ConvertRGBA(img) ==
    [mode |-> "RGBA", size |-> img.size, raw |-> <<>>,
     px |-> [k \in 1..Len(img.px) |-> PixelToRGBA(img.px[k], img.mode)],
     loaded |-> TRUE]

\* Line 38: the condition under which the image is converted.
NeedsConvertNoAlpha(mode) == ~HasAlpha(mode)
NeedsConvert(mode) == mode # "RGBA"

\* ------------------------------------------------------------ colours
NoFill == [kind |-> "none", name |-> "", v |-> <<>>]
Named(n) == [kind |-> "named", name |-> n, v |-> <<>>]
Tuple(v) == [kind |-> "tuple", name |-> "", v |-> v]

\* ImageColor.getrgb: a known name or a tuple; anything else a ValueError.
ColorOK(c) == c.kind \in {"none", "tuple"} \/ c.name \in {"red", "black"}

GetRGBA(c) ==
    CASE c.kind = "tuple" /\ Len(c.v) = 4 -> c.v
      [] c.kind = "tuple"                 -> c.v \o <<255>>
      [] c.name = "red"                   -> <<255, 0, 0, 255>>
      [] OTHER                            -> <<0, 0, 0, 255>>

\* ImageDraw._getink: the colour as a pixel of the image's mode.
InkFor(c, mode) ==
    LET q == GetRGBA(c)
        l == (q[1] * 299 + q[2] * 587 + q[3] * 114) \div 1000 IN
    CASE mode = "L"   -> <<l>>
      [] mode = "LA"  -> <<l, q[4]>>
      [] mode = "RGB" -> <<q[1], q[2], q[3]>>
      [] OTHER        -> q

\* ------------------------------------------------------------ drawing
\* Lines 44-47: the bounding box handed to draw.ellipse.
BoundingBoxTopLeft(x, y, radius) ==
    << <<x, y>>, <<x + 2 * radius, y + 2 * radius>> >>
BoundingBox(x, y, radius) ==
    << <<x - radius, y - radius>>, <<x + radius, y + radius>> >>

\* The closed ellipse inscribed in box, in doubled coordinates about its
\* centre (an empty box holds nothing).
InEllipse(box, px, py) ==
    LET x0 == box[1][1]  y0 == box[1][2]
        x1 == box[2][1]  y1 == box[2][2]
        a == x1 - x0     b == y1 - y0
        dx == 2 * px - (x0 + x1)
        dy == 2 * py - (y0 + y1) IN
    /\ a >= 0 /\ b >= 0
    /\ x0 <= px /\ px <= x1 /\ y0 <= py /\ py <= y1
    /\ dx * dx * b * b + dy * dy * a * a <= a * a * b * b

\* The stroke of the given width: inside the ellipse, outside the ellipse
\* of the box shrunk by width on every side.
OnStroke(box, width, px, py) ==
    /\ width >= 1
    /\ InEllipse(box, px, py)
    /\ ~InEllipse(<< <<box[1][1] + width, box[1][2] + width>>,
                     <<box[2][1] - width, box[2][2] - width>> >>, px, py)

\* fill=None draws no interior.
HasFillAlways(fill) == TRUE
HasFill(fill) == fill.kind # "none"

\* A drawn pixel takes the ink's value, alpha included: ImageDraw on an
\* image of its own mode writes pixels, it does not composite.
PutBlend(old, ink) ==
    IF Len(ink) # 4 \/ Len(old) # 4 THEN ink
    ELSE LET sa == ink[4] IN
         << (ink[1] * sa + old[1] * (255 - sa)) \div 255,
            (ink[2] * sa + old[2] * (255 - sa)) \div 255,
            (ink[3] * sa + old[3] * (255 - sa)) \div 255,
            sa + (old[4] * (255 - sa)) \div 255 >>
Put(old, ink) == ink

\* draw.ellipse(xy, fill, outline, width) on a loaded image: the interior
\* in the fill ink when there is one, then the stroke in the outline ink
\* when it differs from the fill ink and the width is not 0.
DrawEllipse(img, box, fill, outline, width) ==
    LET ink == InkFor(outline, img.mode)
        hasFill == HasFill(fill)
        fillInk == IF hasFill THEN InkFor(fill, img.mode) ELSE <<>>
        stroke == ink # fillInk /\ width # 0
        w == img.size[1] IN
    [img EXCEPT !.px = [k \in 1..Len(img.px) |->
        LET px == (k - 1) % w
            py == (k - 1) \div w
            filled == IF hasFill /\ InEllipse(box, px, py)
                      THEN Put(img.px[k], fillInk) ELSE img.px[k] IN
        IF stroke /\ OnStroke(box, width, px, py)
        THEN Put(filled, ink) ELSE filled]]

\* Lines 48-53 for one coordinate.
DrawCircle(img, xy, a) ==
    DrawEllipse(img, BoundingBox(xy[1], xy[2], a.radius),
                a.fill_color, a.outline_color, a.outline_width)

\* Lines 43-53: the loop from coordinate i on.
RECURSIVE DrawAll(_, _, _)
DrawAll(img, a, i) ==
    IF i > Len(a.coordinates) THEN img
    ELSE DrawAll(DrawCircle(img, a.coordinates[i], a), a, i + 1)

\* _getink raises ValueError on a colour it cannot read.
InksOK(a) == ColorOK(a.fill_color) /\ ColorOK(a.outline_color)

\* Lines 33-67 run from start to end by one caller alone: what the call
\* returns, or the exception it raises.
Annotate(a) ==
    LET Fails(kind) == [ok |-> FALSE, kind |-> kind, result |-> <<>>]
        d == b64decode(a.s)
        o == ImageOpen(d.bytes)
        l == ImageLoad(o.img)
        base == IF NeedsConvert(l.img.mode) THEN ConvertRGBA(l.img) ELSE l.img IN
    IF ~d.ok THEN Fails(d.kind)
    ELSE IF ~o.ok THEN Fails(o.kind)
    ELSE IF ~l.ok THEN Fails(l.kind)
    ELSE IF a.coordinates # <<>> /\ ~InksOK(a) THEN Fails("ValueError")
    ELSE [ok |-> TRUE, kind |-> "",
          result |-> b64encode(EncodePNG(DrawAll(base, a, 1)))]

\* ------------------------------------------------------------- inputs
\* Images a caller may hand in, one per mode (the demo's is RGB, #EEEEEE).
ImgRGB ==
    [mode |-> "RGB", size |-> <<W, H>>, raw |-> <<>>,
     px |-> [k \in 1..W * H |-> <<238, 238, 238>>], loaded |-> TRUE]
ImgRGBA ==
    [mode |-> "RGBA", size |-> <<W, H>>, raw |-> <<>>,
     px |-> [k \in 1..W * H |->
               <<(k * 10) % 256, 7, 200, IF k % 2 = 0 THEN 255 ELSE 64>>],
     loaded |-> TRUE]
ImgLA ==
    [mode |-> "LA", size |-> <<W, H>>, raw |-> <<>>,
     px |-> [k \in 1..W * H |-> <<(k * 5) % 256, IF k % 2 = 0 THEN 255 ELSE 100>>],
     loaded |-> TRUE]
ImgL ==
    [mode |-> "L", size |-> <<W, H>>, raw |-> <<>>,
     px |-> [k \in 1..W * H |-> <<(k * 3) % 256>>], loaded |-> TRUE]

StrRGB == b64encode(EncodePNG(ImgRGB))
StrRGBA == b64encode(EncodePNG(ImgRGBA))
StrLA == b64encode(EncodePNG(ImgLA))
StrL == b64encode(EncodePNG(ImgL))

\* Well-formed base64 of a well-formed image.
GoodStrings == {StrRGB, StrRGBA, StrLA, StrL}

\* The RGB image's base64 with a character outside the alphabet put in.
StrJunkInside == <<StrRGB[1], JUNK>> \o Tail(StrRGB)
\* The same with its last symbol cut off: an incomplete quad.
StrCut == SubSeq(StrRGB, 1, Len(StrRGB) - 1)
StrNonAscii == <<NONASCII>> \o StrRGB
\* Nothing but characters outside the alphabet.
StrAllJunk == <<JUNK, JUNK, JUNK>>
\* Well-formed base64 of bytes that are no image.
StrNotImage == b64encode(<<104, 101, 108, 108, 111>>)
\* Well-formed base64 of image files cut short inside the pixel data.
StrShortRGB == b64encode(SubSeq(EncodePNG(ImgRGB), 1, 10))
StrShortRGBA == b64encode(SubSeq(EncodePNG(ImgRGBA), 1, 10))

OtherStrings ==
    {StrJunkInside, StrCut, StrNonAscii, StrAllJunk, StrNotImage,
     StrShortRGB, StrShortRGBA}

\* Centres: inside the image, on its edge, beyond it.
Points == {<<1, 1>>, <<W - 1, H - 1>>, <<W, 0 - 1>>}

CoordSeqs == UNION {[1..n -> Points] : n \in 0..MaxCoords}

Fills == {NoFill, Named("red"), Tuple(<<0, 255, 0, 128>>)}
Outlines == {Named("black"), Named("notacolor")}

\* Lines 12-21: the parameters, and their defaults.
DefaultArgs(s) ==
    [s |-> s, coordinates |-> << <<1, 1>>, <<W - 1, H - 1>> >>,
     radius |-> DefaultRadius, fill_color |-> Named("red"),
     outline_color |-> Named("red"), outline_width |-> DefaultWidth]

\* The radius is a positive number of pixels, the width is not negative.
ArgSet ==
    [s : GoodStrings, coordinates : CoordSeqs, radius : 1..MaxRadius,
     fill_color : Fills, outline_color : Outlines,
     outline_width : 0..MaxWidth]
        \cup {DefaultArgs(s) : s \in GoodStrings \cup OtherStrings}

\* The calls run together in the concurrent specification.
ConcArgSet ==
    {DefaultArgs(StrRGB), DefaultArgs(StrCut), DefaultArgs(StrShortRGBA),
     [s |-> StrLA, coordinates |-> << <<1, 1>> >>, radius |-> 1,
      fill_color |-> Tuple(<<0, 255, 0, 128>>),
      outline_color |-> Named("black"), outline_width |-> 1],
     [s |-> StrRGBA, coordinates |-> << <<W - 1, H - 1>>, <<1, 1>> >>,
      radius |-> 1, fill_color |-> NoFill,
      outline_color |-> Named("black"), outline_width |-> 1],
     [s |-> StrL, coordinates |-> << <<1, 1>> >>, radius |-> 1,
      fill_color |-> Named("red"),
      outline_color |-> Named("notacolor"), outline_width |-> 1]}

NoArgs == DefaultArgs(<<>>)

\* -------------------------------------------------------------- state
Calls == {1, 2}
Refs == 1..(2 * Cardinality(Calls))

VARIABLES
    args,        \* the arguments of each call
    pc,          \* where each call is
    image_data,  \* line 34
    image,       \* lines 35, 39: a reference into heap, 0 when unbound
    idx,         \* the loop's position in coordinates, line 43
    byte_data,   \* line 60
    result,      \* what the call returned, <<>> when nothing
    exc,         \* the exception the handler caught (e), "" when none
    raised,      \* the exception the caller sees, "" when none
    failed,      \* the step that raised it
    heap,        \* the image objects
    stdout,      \* what print wrote
    trace        \* the steps each call executed, in order

vars == <<args, pc, image_data, image, idx, byte_data, result, exc, raised,
          failed, heap, stdout, trace>>

\* A new object never shares storage with a live one.
SharedRef(h) == CHOOSE r \in Refs : \A q \in Refs : r <= q
FreshRef(h) ==
    CHOOSE r \in Refs : h[r] = NullObj /\ \A q \in Refs : q < r => h[q] # NullObj

Release(h, r) == IF r = 0 THEN h ELSE [h EXCEPT ![r] = NullObj]

InitWith(a) ==
    /\ args = a
    /\ pc = [c \in Calls |-> IF a[c] = NoArgs THEN "unused" ELSE "b64decode"]
    /\ image_data = [c \in Calls |-> <<>>]
    /\ image = [c \in Calls |-> 0]
    /\ idx = [c \in Calls |-> 1]
    /\ byte_data = [c \in Calls |-> <<>>]
    /\ result = [c \in Calls |-> <<>>]
    /\ exc = [c \in Calls |-> ""]
    /\ raised = [c \in Calls |-> ""]
    /\ failed = [c \in Calls |-> ""]
    /\ heap = [r \in Refs |-> NullObj]
    /\ stdout = <<>>
    /\ trace = [c \in Calls |-> <<>>]

\* One call.
Init == \E a \in ArgSet : InitWith([c \in Calls |-> IF c = 1 THEN a ELSE NoArgs])

\* Two calls at once.
InitConc == \E a \in [Calls -> ConcArgSet] : InitWith(a)

\* Lines 33, 65: an exception in the try block goes to the handler.
Raise(c, step, kind) ==
    /\ exc' = [exc EXCEPT ![c] = kind]
    /\ failed' = [failed EXCEPT ![c] = step]
    /\ pc' = [pc EXCEPT ![c] = "except"]
    /\ trace' = [trace EXCEPT ![c] = Append(@, step)]

Goto(c, step, next) ==
    /\ pc' = [pc EXCEPT ![c] = next]
    /\ trace' = [trace EXCEPT ![c] = Append(@, step)]
    /\ UNCHANGED <<exc, failed>>

\* Line 34.
B64Decode(c) ==
    /\ pc[c] = "b64decode"
    /\ LET d == b64decode(args[c].s) IN
       IF d.ok
       THEN /\ image_data' = [image_data EXCEPT ![c] = d.bytes]
            /\ Goto(c, "b64decode", "open")
       ELSE /\ Raise(c, "b64decode", d.kind)
            /\ UNCHANGED image_data
    /\ UNCHANGED <<args, image, idx, byte_data, result, raised, heap, stdout>>

\* Line 35.
Open(c) ==
    /\ pc[c] = "open"
    /\ LET o == ImageOpen(image_data[c]) IN
       IF o.ok
       THEN LET r == FreshRef(heap) IN
            /\ heap' = [heap EXCEPT ![r] = o.img]
            /\ image' = [image EXCEPT ![c] = r]
            /\ Goto(c, "open", "convert")
       ELSE /\ Raise(c, "open", o.kind)
            /\ UNCHANGED <<heap, image>>
    /\ UNCHANGED <<args, image_data, idx, byte_data, result, raised, stdout>>

\* Lines 38-39: convert loads the image and makes a new one; the name image
\* is rebound and the old object dropped.
Convert(c) ==
    /\ pc[c] = "convert"
    /\ IF NeedsConvert(heap[image[c]].mode)
       THEN LET l == ImageLoad(heap[image[c]]) IN
            IF l.ok
            THEN LET r == FreshRef(heap) IN
                 /\ heap' = [Release(heap, image[c]) EXCEPT ![r] = ConvertRGBA(l.img)]
                 /\ image' = [image EXCEPT ![c] = r]
                 /\ Goto(c, "convert", "draw")
            ELSE /\ Raise(c, "convert", l.kind)
                 /\ UNCHANGED <<heap, image>>
       ELSE /\ Goto(c, "skip_convert", "draw")
            /\ UNCHANGED <<heap, image>>
    /\ UNCHANGED <<args, image_data, idx, byte_data, result, raised, stdout>>

\* Line 41: ImageDraw.Draw loads the image it will draw on.
MakeDraw(c) ==
    /\ pc[c] = "draw"
    /\ LET l == ImageLoad(heap[image[c]]) IN
       IF l.ok
       THEN /\ heap' = [heap EXCEPT ![image[c]] = l.img]
            /\ Goto(c, "draw", "loop")
       ELSE /\ Raise(c, "draw", l.kind)
            /\ UNCHANGED heap
    /\ UNCHANGED <<args, image_data, image, idx, byte_data, result, raised,
                   stdout>>

\* Lines 43-53: one turn of the loop.
Ellipse(c) ==
    /\ pc[c] = "loop"
    /\ idx[c] <= Len(args[c].coordinates)
    /\ IF InksOK(args[c])
       THEN /\ heap' = [heap EXCEPT ![image[c]] =
                           DrawCircle(@, args[c].coordinates[idx[c]], args[c])]
            /\ idx' = [idx EXCEPT ![c] = @ + 1]
            /\ Goto(c, "ellipse", "loop")
       ELSE /\ Raise(c, "ellipse", "ValueError")
            /\ UNCHANGED <<heap, idx>>
    /\ UNCHANGED <<args, image_data, image, byte_data, result, raised, stdout>>

\* Lines 57-58: the image is saved as PNG, in its own mode; a format
\* without alpha would save it as RGB.
SaveNoAlpha(img) ==
    EncodePNG([img EXCEPT !.mode = "RGB",
        !.px = [k \in 1..Len(img.px) |-> SubSeq(img.px[k], 1, 3)]])
SavePNG(img) == EncodePNG(img)

\* Lines 55-60, once the loop is over.
Save(c) ==
    /\ pc[c] = "loop"
    /\ idx[c] > Len(args[c].coordinates)
    /\ byte_data' = [byte_data EXCEPT ![c] = SavePNG(heap[image[c]])]
    /\ Goto(c, "save", "b64encode")
    /\ UNCHANGED <<args, image_data, image, idx, result, raised, heap, stdout>>

\* Lines 61-63: the return; the call's objects die with its frame.
B64Encode(c) ==
    /\ pc[c] = "b64encode"
    /\ result' = [result EXCEPT ![c] = b64encode(byte_data[c])]
    /\ heap' = Release(heap, image[c])
    /\ image' = [image EXCEPT ![c] = 0]
    /\ Goto(c, "b64encode", "returned")
    /\ UNCHANGED <<args, image_data, idx, byte_data, raised, stdout>>

\* Line 66: the diagnostic.
EmitNothing(out, c, kind) == out
Emit(out, c, kind) == Append(out, <<c, kind>>)

PrintError(c) ==
    /\ pc[c] = "except"
    /\ stdout' = Emit(stdout, c, exc[c])
    /\ pc' = [pc EXCEPT ![c] = "reraise"]
    /\ trace' = [trace EXCEPT ![c] = Append(@, "print")]
    /\ UNCHANGED <<args, image_data, image, idx, byte_data, result, exc,
                   raised, failed, heap>>

\* Line 67: a bare raise hands the caught exception on as it is.
Wrapped(kind) == "ProcessingError"
Reraised(kind) == kind

Reraise(c) ==
    /\ pc[c] = "reraise"
    /\ raised' = [raised EXCEPT ![c] = Reraised(exc[c])]
    /\ heap' = Release(heap, image[c])
    /\ image' = [image EXCEPT ![c] = 0]
    /\ pc' = [pc EXCEPT ![c] = "raised"]
    /\ trace' = [trace EXCEPT ![c] = Append(@, "raise")]
    /\ UNCHANGED <<args, image_data, idx, byte_data, result, exc, failed,
                   stdout>>

Next ==
    \E c \in Calls :
        \/ B64Decode(c)
        \/ Open(c)
        \/ Convert(c)
        \/ MakeDraw(c)
        \/ Ellipse(c)
        \/ Save(c)
        \/ B64Encode(c)
        \/ PrintError(c)
        \/ Reraise(c)

Spec == Init /\ [][Next]_vars
SpecConc == InitConc /\ [][Next]_vars

\* ------------------------------------------------------------- claims
\* What a caller reads off a call: the image it handed in, as decoded and
\* normalised to RGBA, and the image in the string it got back.
Decodable(s) ==
    /\ b64decode(s).ok
    /\ ImageOpen(b64decode(s).bytes).ok
    /\ ImageLoad(ImageOpen(b64decode(s).bytes).img).ok

InputMode(c) == ImageOpen(b64decode(args[c].s).bytes).img.mode
InputImage(c) ==
    ConvertRGBA(ImageLoad(ImageOpen(b64decode(args[c].s).bytes).img).img)
OutputImage(c) ==
    ImageLoad(ImageOpen(b64decode(result[c]).bytes).img).img

PixelX(img, k) == (k - 1) % img.size[1]
PixelY(img, k) == (k - 1) \div img.size[1]

InBox(px, py, xy, r) ==
    /\ xy[1] - r <= px /\ px <= xy[1] + r
    /\ xy[2] - r <= py /\ py <= xy[2] + r

InImage(img, xy) ==
    /\ 0 <= xy[1] /\ xy[1] < img.size[1]
    /\ 0 <= xy[2] /\ xy[2] < img.size[2]

BoxOf(xy, r) == << <<xy[1] - r, xy[2] - r>>, <<xy[1] + r, xy[2] + r>> >>

Failing(c) == pc[c] \in {"except", "reraise", "raised"}

\* C1: a returned image has the input's dimensions, and every pixel outside
\* all the boxes [x-radius, y-radius]..[x+radius, y+radius] has the value it
\* has in the input normalised to RGBA; with a fill, every centre inside
\* the image holds the fill or the outline colour.
C1_OutsideBoxesUnchanged ==
    \A c \in Calls : pc[c] = "returned" =>
        LET in == InputImage(c)
            out == OutputImage(c)
            a == args[c] IN
        /\ out.size = in.size
        /\ Len(out.px) = Len(in.px)
        /\ \A k \in 1..Len(in.px) :
              (\A i \in 1..Len(a.coordinates) :
                  ~InBox(PixelX(in, k), PixelY(in, k), a.coordinates[i], a.radius))
              => out.px[k] = in.px[k]
        /\ a.fill_color # NoFill =>
              \A i \in 1..Len(a.coordinates) :
                  InImage(in, a.coordinates[i]) =>
                      out.px[a.coordinates[i][2] * in.size[1]
                             + a.coordinates[i][1] + 1]
                          \in {GetRGBA(a.fill_color), GetRGBA(a.outline_color)}

\* A call returned with a centre beyond the image, a pixel drawn and a
\* pixel outside every box.
C1_Witness ==
    \E c \in Calls :
        /\ pc[c] = "returned"
        /\ \E i \in 1..Len(args[c].coordinates) :
              ~InImage(InputImage(c), args[c].coordinates[i])
        /\ \E k \in 1..Len(InputImage(c).px) :
              OutputImage(c).px[k] # InputImage(c).px[k]
        /\ \E k \in 1..Len(InputImage(c).px) :
              \A i \in 1..Len(args[c].coordinates) :
                  ~InBox(PixelX(InputImage(c), k), PixelY(InputImage(c), k),
                         args[c].coordinates[i], args[c].radius)

\* C2: with no coordinates a decodable input never fails, whatever the
\* radius, colours and width, and the returned image is the input
\* normalised to RGBA, pixel for pixel.
C2_EmptyIsNoOp ==
    \A c \in Calls :
        (args[c].coordinates = <<>> /\ Decodable(args[c].s)) =>
            /\ ~Failing(c)
            /\ pc[c] = "returned" => OutputImage(c) = InputImage(c)

\* A call with no coordinates and a colour no ellipse call could read
\* returned an image whose mode had to be normalised.
C2_Witness ==
    \E c \in Calls :
        /\ pc[c] = "returned"
        /\ args[c].coordinates = <<>>
        /\ ~InksOK(args[c])
        /\ InputMode(c) = "L"
        /\ args[c].radius = MaxRadius

\* C3: a string holding a character outside the base64 alphabet is never
\* accepted and processed as an image: the call returns nothing.
C3_ForeignCharacterRejected ==
    \A c \in Calls :
        (\E i \in 1..Len(args[c].s) : args[c].s[i] \in {JUNK, NONASCII}) =>
            /\ pc[c] # "returned"
            /\ result[c] = <<>>

StepRank(step) ==
    CASE step = "b64decode" -> 1
      [] step = "open" -> 2
      [] step \in {"convert", "skip_convert"} -> 3
      [] step = "draw" -> 4
      [] step = "ellipse" -> 5
      [] step = "save" -> 6
      [] step = "b64encode" -> 7
      [] step = "print" -> 8
      [] OTHER -> 9

Printed(c) == Len(SelectSeq(stdout, LAMBDA e : e[1] = c))

\* C5: in a failing call the failing step is the last step of the body that
\* runs, no step runs twice (the loop runs at most once per coordinate),
\* one diagnostic is printed, before the exception is raised to the caller,
\* and nothing is returned; a call that has not failed has printed nothing.
C5_FailureAbortsCall ==
    \A c \in Calls :
        LET tr == trace[c]
            n == Len(tr) IN
        /\ \A i, j \in 1..n : i < j =>
              \/ StepRank(tr[i]) < StepRank(tr[j])
              \/ tr[i] = "ellipse" /\ tr[j] = "ellipse"
        /\ Len(SelectSeq(tr, LAMBDA s : s = "ellipse")) <= Len(args[c].coordinates)
        /\ pc[c] = "except" => tr[n] = failed[c] /\ Printed(c) = 0
        /\ pc[c] = "reraise" =>
              tr[n] = "print" /\ tr[n - 1] = failed[c] /\ Printed(c) = 1
        /\ pc[c] = "raised" =>
              /\ tr[n] = "raise" /\ tr[n - 1] = "print" /\ tr[n - 2] = failed[c]
              /\ Printed(c) = 1
        /\ Failing(c) => result[c] = <<>> /\ byte_data[c] = <<>>
        /\ ~Failing(c) => Printed(c) = 0
        /\ pc[c] = "returned" => result[c] # <<>> /\ raised[c] = ""

\* A call failed in the loop, after an earlier step had run, and raised.
C5_Witness ==
    \E c \in Calls :
        /\ pc[c] = "raised"
        /\ failed[c] = "ellipse"
        /\ Len(trace[c]) = 7
        /\ Printed(c) = 1

\* The stroke of circle i of call c holds pixel k of img.
StrokeAt(c, i, img, k) ==
    OnStroke(BoxOf(args[c].coordinates[i], args[c].radius),
             args[c].outline_width, PixelX(img, k), PixelY(img, k))

\* C6: with no fill, a returned image differs from the input normalised
\* to RGBA only on the outline strokes: a pixel on no circle's stroke,
\* inside a bounding box or not, has its input value, and a pixel on a
\* stroke has the outline colour.
C6_NoFillOnlyStroke ==
    \A c \in Calls :
        (pc[c] = "returned" /\ args[c].fill_color = NoFill) =>
            LET in == InputImage(c)
                out == OutputImage(c) IN
            \A k \in 1..Len(in.px) :
                IF \E i \in 1..Len(args[c].coordinates) : StrokeAt(c, i, in, k)
                THEN out.px[k] = GetRGBA(args[c].outline_color)
                ELSE out.px[k] = in.px[k]

\* A call without fill returned: a pixel on a stroke changed, and the
\* centre of a circle, inside the image and off the strokes, did not.
C6_Witness ==
    \E c \in Calls :
        /\ pc[c] = "returned"
        /\ args[c].fill_color = NoFill
        /\ args[c].radius = 2
        /\ args[c].outline_width = 1
        /\ \E k \in 1..Len(InputImage(c).px) :
              /\ \E i \in 1..Len(args[c].coordinates) :
                    StrokeAt(c, i, InputImage(c), k)
              /\ OutputImage(c).px[k] # InputImage(c).px[k]
        /\ \E k \in 1..Len(InputImage(c).px) :
              /\ <<PixelX(InputImage(c), k), PixelY(InputImage(c), k)>>
                    = args[c].coordinates[1]
              /\ \A i \in 1..Len(args[c].coordinates) :
                    ~StrokeAt(c, i, InputImage(c), k)
              /\ OutputImage(c).px[k] = InputImage(c).px[k]

Opaque(img) == \A k \in 1..Len(img.px) : img.px[k][4] = 255

PixelAt(img, xy) == img.px[xy[2] * img.size[1] + xy[1] + 1]

C8_AsWhenAlone ==
    \A c \in Calls :
        /\ pc[c] = "returned" =>
              Annotate(args[c]).ok /\ result[c] = Annotate(args[c]).result
        /\ pc[c] = "raised" =>
              ~Annotate(args[c]).ok /\ raised[c] = Annotate(args[c]).kind

\* Two calls on different images have both returned, different results.
C8_Witness ==
    \E c, d \in Calls :
        /\ c # d
        /\ pc[c] = "returned" /\ pc[d] = "returned"
        /\ args[c].s # args[d].s
        /\ result[c] # result[d]

\* Circle j of call c writes pixel k of img: it is on the stroke that is
\* drawn, or inside the ellipse when there is a fill.
Strokes(c) ==
    /\ args[c].outline_width # 0
    /\ ~(HasFill(args[c].fill_color)
         /\ GetRGBA(args[c].fill_color) = GetRGBA(args[c].outline_color))

Covers(c, j, img, k) ==
    \/ Strokes(c) /\ StrokeAt(c, j, img, k)
    \/ /\ args[c].fill_color # NoFill
       /\ InEllipse(BoxOf(args[c].coordinates[j], args[c].radius),
                    PixelX(img, k), PixelY(img, k))

Written(c, j, img, k) ==
    IF Strokes(c) /\ StrokeAt(c, j, img, k)
    THEN GetRGBA(args[c].outline_color)
    ELSE GetRGBA(args[c].fill_color)

\* C9: in the loop, after the first n coordinates, every pixel holds what
\* the last of them whose circle covers it wrote, or its input value when
\* none does; drawing the coordinate just drawn once more changes
\* nothing; and when the last two circles share no pixel, drawing them in
\* the other order gives the same image.
C9_LastWriterWins ==
    \A c \in Calls : pc[c] = "loop" =>
        LET img == heap[image[c]]
            in == InputImage(c)
            a == args[c]
            n == idx[c] - 1
            before == DrawAll(in, [a EXCEPT !.coordinates =
                                       SubSeq(a.coordinates, 1, n - 2)], 1) IN
        /\ \A k \in 1..Len(img.px) :
              LET cov == {j \in 1..n : Covers(c, j, in, k)} IN
              img.px[k] = IF cov = {} THEN in.px[k]
                          ELSE Written(c, CHOOSE j \in cov : \A m \in cov : m <= j,
                                       in, k)
        /\ n >= 1 => DrawCircle(img, a.coordinates[n], a) = img
        /\ ( /\ n >= 2
             /\ \A k \in 1..Len(img.px) :
                   ~(Covers(c, n - 1, in, k) /\ Covers(c, n, in, k)) )
           => img = DrawCircle(DrawCircle(before, a.coordinates[n], a),
                               a.coordinates[n - 1], a)

\* Two different circles with a half-transparent fill are drawn and a
\* pixel lies in both.
C9_Witness ==
    \E c \in Calls :
        /\ pc[c] = "loop"
        /\ idx[c] = 3
        /\ args[c].fill_color = Tuple(<<0, 255, 0, 128>>)
        /\ args[c].outline_width = 1
        /\ args[c].coordinates[1] # args[c].coordinates[2]
        /\ \E k \in 1..Len(InputImage(c).px) :
              /\ Covers(c, 1, InputImage(c), k)
              /\ Covers(c, 2, InputImage(c), k)
              /\ Written(c, 1, InputImage(c), k) # Written(c, 2, InputImage(c), k)

\* The other case of C9: two circles that share no pixel are drawn.
C9_WitnessDisjoint ==
    \E c \in Calls :
        /\ pc[c] = "loop"
        /\ idx[c] = 3
        /\ args[c].fill_color = Tuple(<<0, 255, 0, 128>>)
        /\ \A k \in 1..Len(InputImage(c).px) :
              ~(Covers(c, 1, InputImage(c), k) /\ Covers(c, 2, InputImage(c), k))
        /\ \E k \in 1..Len(InputImage(c).px) : Covers(c, 1, InputImage(c), k)
        /\ \E k \in 1..Len(InputImage(c).px) : Covers(c, 2, InputImage(c), k)

Converted(c) == \E i \in 1..Len(trace[c]) : trace[c][i] = "convert"

PastConvert(c) == pc[c] \in {"draw", "loop", "b64encode", "returned"}

\* C10 as stated: the image is converted exactly when its mode has no
\* alpha channel.
C10_ConvertedIffNoAlpha ==
    \A c \in Calls : PastConvert(c) => (Converted(c) <=> ~HasAlpha(InputMode(c)))

\* C10 as amended: the image is converted exactly when its mode is not
\* RGBA, and the image drawn on, saved and returned is RGBA.
C10_ConvertedIffNotRGBA ==
    \A c \in Calls :
        /\ PastConvert(c) => (Converted(c) <=> InputMode(c) # "RGBA")
        /\ pc[c] \in {"draw", "loop"} => heap[image[c]].mode = "RGBA"
        /\ pc[c] = "b64encode" => CodeMode(byte_data[c][2]) = "RGBA"
        /\ pc[c] = "returned" => OutputImage(c).mode = "RGBA"

\* A greyscale image with an alpha channel was converted and returned.
C10_Witness ==
    \E c \in Calls :
        /\ pc[c] = "returned"
        /\ InputMode(c) = "LA"
        /\ Converted(c)
        /\ args[c].coordinates # <<>>

====
